---- MODULE Spec2Model ----
(***************************************************************************)
(* Model of find_toasts.py: find_toast_usages(root_dir) walks a directory  *)
(* tree, reads every source file, finds the toast calls with a regular     *)
(* expression, recovers each call's arguments with a parenthesis counter   *)
(* and collects one record per call.                                       *)
(*                                                                         *)
(* A Python str is a sequence of one-character strings; offsets are        *)
(* 0-based as in Python, so the character at offset k of c is c[k + 1].    *)
(***************************************************************************)
EXTENDS Integers, Sequences, FiniteSets, TLC

VARIABLES pc, subdir, ndirs, files, filepath, content, pos, start_index,
          line_number, method, params_start_idx, balance, idx, full_args,
          usage_list, starts, fs

vars == <<pc, subdir, ndirs, files, filepath, content, pos, start_index,
          line_number, method, params_start_idx, balance, idx, full_args,
          usage_list, starts, fs>>

(***************************************************************************)
(* Bounds of the model.                                                    *)
(***************************************************************************)
MaxFrags == 4
MaxDirs == 3
MaxFiles == 3

(***************************************************************************)
(* Program constants.                                                      *)
(***************************************************************************)
SummaryMax == 100

toast == <<"t", "o", "a", "s", "t">>

VariantNames ==
    << <<"s", "u", "c", "c", "e", "s", "s">>,
       <<"e", "r", "r", "o", "r">>,
       <<"i", "n", "f", "o">>,
       <<"w", "a", "r", "n", "i", "n", "g">>,
       <<"l", "o", "a", "d", "i", "n", "g">>,
       <<"c", "u", "s", "t", "o", "m">>,
       <<"m", "e", "s", "s", "a", "g", "e">> >>

default == <<"d", "e", "f", "a", "u", "l", "t">>

Ellipsis == <<".", ".", ".">>

SourceExtensions ==
    { <<".", "t", "s", "x">>, <<".", "t", "s">>, <<".", "j", "s">>,
      <<".", "j", "s", "x">> }

node_modules == <<"n", "o", "d", "e", "_", "m", "o", "d", "u", "l", "e", "s">>

dot_git == <<".", "g", "i", "t">>

(***************************************************************************)
(* str primitives.                                                         *)
(***************************************************************************)
\* s[k:k+len(lit)] == lit
HasAt(s, k, lit) ==
    /\ k >= 0
    /\ k + Len(lit) <= Len(s)
    /\ \A i \in 1..Len(lit) : s[k + i] = lit[i]

\* lit in s
Contains(lit, s) == \E k \in 0..Len(s) : HasAt(s, k, lit)

\* s.endswith(lit)
EndsWith(s, lit) == HasAt(s, Len(s) - Len(lit), lit)

\* a whitespace class of the blank alone
IsSpaceBlankOnly(ch) == ch = " "

\* the whitespace class of \s and of str.split()
IsSpace(ch) == ch \in {" ", "\t", "\n", "\r"}

\* s.count(ch): the end of the counted range is dropped
CountWhole(s, ch, stop) ==
    Cardinality({ k \in 0..(Len(s) - 1) : s[k + 1] = ch })

\* s.count(ch, 0, stop)
Count(s, ch, stop) == Cardinality({ k \in 0..(stop - 1) : s[k + 1] = ch })

Min(S) == CHOOSE x \in S : \A y \in S : x <= y

(***************************************************************************)
(* toast_pattern:                                                          *)
(*   toast(?:\.(success|error|info|warning|loading|custom|message))?       *)
(*   \s*\(([\s\S]*?)\)                                                     *)
(***************************************************************************)
NoMatch == [ok |-> FALSE, start |-> 0, g1 |-> <<>>, g2 |-> 0, end |-> 0]

\* \s* is greedy: the offset of the first non-space character at or after k
SkipSpace(c, k) ==
    Min({ p \in k..Len(c) : p = Len(c) \/ ~IsSpace(c[p + 1]) })

\* [\s\S]*?\) is lazy: the offset of the first ")" at or after k, or -1
FirstClose(c, k) ==
    LET closers == { e \in k..(Len(c) - 1) : c[e + 1] = ")" } IN
    IF closers = {} THEN -1 ELSE Min(closers)

\* \s*\(([\s\S]*?)\) tried at offset k, for a match begun at offset i
PatternTail(c, i, k, grp) ==
    LET p == SkipSpace(c, k) IN
    IF p < Len(c) /\ c[p + 1] = "("
    THEN LET e == FirstClose(c, p + 1) IN
         IF e >= 0
         THEN [ok |-> TRUE, start |-> i, g1 |-> grp, g2 |-> p + 1,
               end |-> e + 1]
         ELSE NoMatch
    ELSE NoMatch

\* the alternatives of group 1 are tried in order, each with the tail
RECURSIVE TryVariants(_, _, _)
TryVariants(c, i, n) ==
    IF n > Len(VariantNames) THEN NoMatch
    ELSE LET v == VariantNames[n]
             j == i + Len(toast)
             m == IF HasAt(c, j, <<".">> \o v)
                  THEN PatternTail(c, i, j + 1 + Len(v), v)
                  ELSE NoMatch
         IN IF m.ok THEN m ELSE TryVariants(c, i, n + 1)

\* the pattern anchored at offset i: the optional group is greedy, so the
\* branch with the group is tried first and the branch without it second
MatchAt(c, i) ==
    IF ~HasAt(c, i, toast) THEN NoMatch
    ELSE LET m == TryVariants(c, i, 1) IN
         IF m.ok THEN m ELSE PatternTail(c, i, i + Len(toast), <<>>)

\* one step of toast_pattern.finditer(content): the leftmost match that
\* starts at or after offset p
Search(c, p) ==
    LET found == { i \in p..(Len(c) - 1) : MatchAt(c, i).ok } IN
    IF found = {} THEN NoMatch ELSE MatchAt(c, Min(found))

(***************************************************************************)
(* " ".join(full_args.split()) and the truncation of lines 63-65.          *)
(***************************************************************************)
\* s.split(): the maximal runs of non-space characters, in order
RECURSIVE Split(_)
Split(s) ==
    LET a == SkipSpace(s, 0) IN
    IF a >= Len(s) THEN <<>>
    ELSE LET b == Min({ e \in a..Len(s) : e = Len(s) \/ IsSpace(s[e + 1]) })
         IN <<SubSeq(s, a + 1, b)>> \o Split(SubSeq(s, b + 1, Len(s)))

\* " ".join(words)
RECURSIVE Join(_)
Join(words) ==
    IF words = <<>> THEN <<>>
    ELSE IF Len(words) = 1 THEN words[1]
    ELSE words[1] \o <<" ">> \o Join(Tail(words))

Normalize(s) == Join(Split(s))

\* the truncation with >= for >
TruncateFrom100(s) ==
    IF Len(s) >= SummaryMax THEN SubSeq(s, 1, SummaryMax) \o Ellipsis ELSE s

Truncate(s) ==
    IF Len(s) > SummaryMax THEN SubSeq(s, 1, SummaryMax) \o Ellipsis ELSE s

Summary(raw) == Truncate(Normalize(raw))

(***************************************************************************)
(* The directory filter of line 12, the file filter of line 16 and the     *)
(* path of line 19.                                                        *)
(***************************************************************************)
\* the directory filter without its second test
IsExcludedNodeModulesOnly(dir) == Contains(node_modules, dir)

IsExcluded(dir) == Contains(node_modules, dir) \/ Contains(dot_git, dir)

HasSourceExtension(file) == \E ext \in SourceExtensions : EndsWith(file, ext)

PathJoin(dir, file) == dir \o <<"/">> \o file

(***************************************************************************)
(* Inputs: the texts a file can hold.                                      *)
(***************************************************************************)
RECURSIVE Flatten(_)
Flatten(ss) == IF ss = <<>> THEN <<>> ELSE Head(ss) \o Flatten(Tail(ss))

Rep(ch, n) == [i \in 1..n |-> ch]

Frags ==
    { toast, <<".", "e", "r", "r", "o", "r">>,
      <<".", "c", "u", "s", "t", "o", "m", "2">>,
      <<"(">>, <<")">>, <<" ">>, <<"\n">>, <<"x">> }

FragTexts ==
    { Flatten(f) : f \in UNION { [1..n -> Frags] : n \in 0..MaxFrags } }

LongTexts ==
    { toast \o <<"(">> \o lead \o Rep("x", a) \o ws \o Rep("y", b) \o <<")">> :
        lead \in { <<>>, <<" ", "\n">> },
        a \in { SummaryMax - 1, SummaryMax, SummaryMax + 1 },
        ws \in { <<>>, <<" ">>, <<" ", "\t", "\n", " ">> },
        b \in { 0, 1, SummaryMax \div 2 } }

\* toast(foo(bar(1,2)), "x)y")
NestedCallText ==
    <<"t", "o", "a", "s", "t", "(", "f", "o", "o", "(", "b", "a", "r", "(",
      "1", ",", "2", ")", ")", ",", " ", "\"", "x", ")", "y", "\"", ")">>

\* toast("Hello") and toast.error("Failed: " + reason) on two lines
TwoLineText ==
    <<"t", "o", "a", "s", "t", "(", "\"", "H", "e", "l", "l", "o", "\"", ")",
      "\n", "t", "o", "a", "s", "t", ".", "e", "r", "r", "o", "r", "(", "\"",
      "F", "a", "i", "l", "e", "d", ":", " ", "\"", " ", "+", " ", "r", "e",
      "a", "s", "o", "n", ")">>

\* toast(toast.error("x"))
ToastInToastText ==
    <<"t", "o", "a", "s", "t", "(", "t", "o", "a", "s", "t", ".", "e", "r",
      "r", "o", "r", "(", "\"", "x", "\"", ")", ")">>

\* toast.success (x) toast.custom2(x) toast.successful(x) toast(y(z)
VariantsText ==
    <<"t", "o", "a", "s", "t", ".", "s", "u", "c", "c", "e", "s", "s", " ",
      "(", "x", ")", " ", "t", "o", "a", "s", "t", ".", "c", "u", "s", "t",
      "o", "m", "2", "(", "x", ")", " ", "t", "o", "a", "s", "t", ".", "s",
      "u", "c", "c", "e", "s", "s", "f", "u", "l", "(", "x", ")", "\n", "t",
      "o", "a", "s", "t", "(", "y", "(", "z", ")">>

NamedTexts == { NestedCallText, TwoLineText, ToastInToastText, VariantsText }

Texts == FragTexts \cup LongTexts \cup NamedTexts

\* toast()toast(() : a closed call, then one the text ends within
SmallText ==
    <<"t", "o", "a", "s", "t", "(", ")", "t", "o", "a", "s", "t", "(", "(",
      ")">>

(***************************************************************************)
(* Inputs: the directory tree os.walk traverses.  A directory is the       *)
(* sequence of the names on the way to it from root_dir; os.walk yields    *)
(* its path, and the files in it.  A file that cannot be opened or decoded *)
(* has readable = FALSE.                                                   *)
(***************************************************************************)
root_dir == <<"s", "r", "c">>

DirNames ==
    { <<"l", "i", "b">>, node_modules, <<".", "g", "i", "t", "h", "u", "b">> }

RECURSIVE PathStr(_)
PathStr(names) ==
    IF Len(names) = 1 THEN names[1]
    ELSE PathStr(SubSeq(names, 1, Len(names) - 1)) \o <<"/">>
         \o names[Len(names)]

\* a.ts is readable, b.jsx cannot be read, c.css is not a source file
FileEntries ==
    { [name |-> <<"a", ".", "t", "s">>, readable |-> TRUE,
       data |-> SmallText],
      [name |-> <<"b", ".", "j", "s", "x">>, readable |-> FALSE,
       data |-> <<>>],
      [name |-> <<"c", ".", "c", "s", "s">>, readable |-> TRUE,
       data |-> SmallText] }

\* the number of files in the directories yielded so far
RECURSIVE FileCount(_)
FileCount(tree) ==
    IF tree = <<>> THEN 0 ELSE Len(Head(tree).files) + FileCount(Tail(tree))

\* the files a directory can hold: distinct names, at most max of them
Listings(max) ==
    { l \in UNION { [1..n -> FileEntries] : n \in 0..max } :
        \A i, j \in DOMAIN l : i # j => l[i].name # l[j].name }

\* the directories os.walk can yield after names: a child of it, or a later
\* child of one of its ancestors; none is yielded twice
NextDirs(names) ==
    IF names = <<>> THEN { <<root_dir>> }
    ELSE { d \in { SubSeq(names, 1, k) \o <<n>> :
                     k \in 1..Len(names), n \in DirNames } :
             \A i \in DOMAIN fs : fs[i].dir # PathStr(d) }

(***************************************************************************)
(* The state machine.  pc is the loop the function is at the head of:      *)
(* "walk" (line 10), "files" (line 15), "match" (line 27), "scan" (line 52);  *)
(* "summarize" is line 62; "done" is after the return of line 77.          *)
(***************************************************************************)
Init ==
    /\ pc = "walk"
    /\ subdir = <<>>
    /\ ndirs = 0
    /\ files = <<>>
    /\ filepath = <<>>
    /\ content = <<>>
    /\ pos = 0
    /\ start_index = 0
    /\ line_number = 0
    /\ method = <<>>
    /\ params_start_idx = 0
    /\ balance = 0
    /\ idx = 0
    /\ full_args = <<>>
    /\ usage_list = <<>>
    /\ starts = <<>>
    /\ fs = <<>>

locals == <<filepath, content, pos, start_index, line_number, method,
            params_start_idx, balance, idx, full_args>>

\* lines 10-13: os.walk yields a directory whose path holds a marker
WalkSkip ==
    /\ pc = "walk"
    /\ ndirs < MaxDirs
    /\ \E d \in NextDirs(subdir), l \in Listings(MaxFiles - FileCount(fs)) :
         /\ IsExcluded(PathStr(d))
         /\ subdir' = d
         /\ fs' = Append(fs, [dir |-> PathStr(d), files |-> l])
    /\ ndirs' = ndirs + 1
    /\ UNCHANGED <<pc, files, locals, usage_list, starts>>

\* lines 10-15: os.walk yields a directory that is scanned
WalkEnter ==
    /\ pc = "walk"
    /\ ndirs < MaxDirs
    /\ \E d \in NextDirs(subdir), l \in Listings(MaxFiles - FileCount(fs)) :
         /\ ~IsExcluded(PathStr(d))
         /\ subdir' = d
         /\ files' = l
         /\ fs' = Append(fs, [dir |-> PathStr(d), files |-> l])
    /\ ndirs' = ndirs + 1
    /\ pc' = "files"
    /\ UNCHANGED <<locals, usage_list, starts>>

\* line 77: os.walk is exhausted
WalkEnd ==
    /\ pc = "walk"
    /\ ndirs >= 1
    /\ pc' = "done"
    /\ UNCHANGED <<subdir, ndirs, files, locals, usage_list, starts, fs>>

\* lines 15-17: a file without a source extension
FileSkip ==
    /\ pc = "files"
    /\ files # <<>>
    /\ ~HasSourceExtension(Head(files).name)
    /\ files' = Tail(files)
    /\ UNCHANGED <<pc, subdir, ndirs, locals, usage_list, starts, fs>>

\* the try placed around the whole walk: a failed read ends the scan
ReadFailEndsScan ==
    /\ pc = "files"
    /\ files # <<>>
    /\ HasSourceExtension(Head(files).name)
    /\ ~Head(files).readable
    /\ filepath' = PathJoin(PathStr(subdir), Head(files).name)
    /\ pc' = "done"
    /\ UNCHANGED <<subdir, ndirs, files, content, pos, start_index,
                   line_number, method, params_start_idx, balance, idx,
                   full_args, usage_list, starts, fs>>

\* lines 19-23, 74-75: open or read raises, the error is printed
ReadFail ==
    /\ pc = "files"
    /\ files # <<>>
    /\ HasSourceExtension(Head(files).name)
    /\ ~Head(files).readable
    /\ filepath' = PathJoin(PathStr(subdir), Head(files).name)
    /\ files' = Tail(files)
    /\ UNCHANGED <<pc, subdir, ndirs, content, pos, start_index, line_number,
                   method, params_start_idx, balance, idx, full_args,
                   usage_list, starts, fs>>

\* lines 19-25: the file is read and the pattern's iterator is created
ReadOk ==
    /\ pc = "files"
    /\ files # <<>>
    /\ HasSourceExtension(Head(files).name)
    /\ Head(files).readable
    /\ filepath' = PathJoin(PathStr(subdir), Head(files).name)
    /\ content' = Head(files).data
    /\ pos' = 0
    /\ files' = Tail(files)
    /\ pc' = "match"
    /\ UNCHANGED <<subdir, ndirs, start_index, line_number, method,
                   params_start_idx, balance, idx, full_args, usage_list,
                   starts, fs>>

\* line 15: the files of the directory are exhausted
FilesEnd ==
    /\ pc = "files"
    /\ files = <<>>
    /\ pc' = "walk"
    /\ UNCHANGED <<subdir, ndirs, files, locals, usage_list, starts, fs>>

\* line 32 without its default
MethodOfGroup(match) == match.g1

\* line 32: the variant of a match
Method(match) == IF match.g1 # <<>> THEN match.g1 ELSE default

\* lines 27-50: the iterator yields a match; line, variant, counter set up
MatchStep ==
    /\ pc = "match"
    /\ LET match == Search(content, pos) IN
         /\ match.ok
         /\ start_index' = match.start
         /\ line_number' = Count(content, "\n", match.start) + 1
         /\ method' = Method(match)
         /\ params_start_idx' = match.g2
         /\ idx' = match.g2
         /\ pos' = match.end
    /\ balance' = 0
    /\ full_args' = <<>>
    /\ pc' = "scan"
    /\ UNCHANGED <<subdir, ndirs, files, filepath, content, usage_list,
                   starts, fs>>

\* the counter without its increment
StepClosersOnly(b, char) == IF char = ")" THEN b - 1 ELSE b

\* the counter after reading char (lines 53-56)
Step(b, char) ==
    IF char = "(" THEN b + 1 ELSE IF char = ")" THEN b - 1 ELSE b

\* lines 52-60: one character is counted and appended
ScanChar ==
    /\ pc = "scan"
    /\ idx < Len(content)
    /\ Step(balance, content[idx + 1]) >= 0
    /\ balance' = Step(balance, content[idx + 1])
    /\ full_args' = Append(full_args, content[idx + 1])
    /\ idx' = idx + 1
    /\ UNCHANGED <<pc, subdir, ndirs, files, filepath, content, pos,
                   start_index, line_number, method, params_start_idx,
                   usage_list, starts, fs>>

\* the loop with the append placed before the test of the counter
ScanBreakAfterAppend ==
    /\ pc = "scan"
    /\ idx < Len(content)
    /\ Step(balance, content[idx + 1]) < 0
    /\ balance' = Step(balance, content[idx + 1])
    /\ full_args' = Append(full_args, content[idx + 1])
    /\ pc' = "summarize"
    /\ UNCHANGED <<subdir, ndirs, files, filepath, content, pos, start_index,
                   line_number, method, params_start_idx, idx, usage_list,
                   starts, fs>>

\* lines 52-59: the counter goes negative, the loop breaks
ScanBreak ==
    /\ pc = "scan"
    /\ idx < Len(content)
    /\ Step(balance, content[idx + 1]) < 0
    /\ balance' = Step(balance, content[idx + 1])
    /\ pc' = "summarize"
    /\ UNCHANGED <<subdir, ndirs, files, filepath, content, pos, start_index,
                   line_number, method, params_start_idx, idx, full_args,
                   usage_list, starts, fs>>

\* line 52: the text is exhausted
ScanEnd ==
    /\ pc = "scan"
    /\ idx >= Len(content)
    /\ pc' = "summarize"
    /\ UNCHANGED <<subdir, ndirs, files, filepath, content, pos, start_index,
                   line_number, method, params_start_idx, balance, idx,
                   full_args, usage_list, starts, fs>>

\* lines 62-72: the arguments are normalized and truncated, the record added
AppendRecord ==
    /\ pc = "summarize"
    /\ full_args' = Summary(full_args)
    /\ usage_list' = Append(usage_list,
                            [file |-> filepath, line |-> line_number,
                             type |-> method, args |-> Summary(full_args)])
    /\ starts' = Append(starts, start_index)
    /\ pc' = "match"
    /\ UNCHANGED <<subdir, ndirs, files, filepath, content, pos, start_index,
                   line_number, method, params_start_idx, balance, idx, fs>>

\* line 27: the iterator is exhausted
MatchEnd ==
    /\ pc = "match"
    /\ ~Search(content, pos).ok
    /\ pc' = "files"
    /\ UNCHANGED <<subdir, ndirs, files, locals, usage_list, starts, fs>>

Next ==
    \/ WalkSkip
    \/ WalkEnter
    \/ WalkEnd
    \/ FileSkip
    \/ ReadFail
    \/ ReadOk
    \/ FilesEnd
    \/ MatchStep
    \/ ScanChar
    \/ ScanBreak
    \/ ScanEnd
    \/ AppendRecord
    \/ MatchEnd

Spec == Init /\ [][Next]_vars

(***************************************************************************)
(* The extractor on one file: root_dir holds the single file a.ts, whose   *)
(* text ranges over Texts.                                                 *)
(***************************************************************************)
InitText ==
    /\ pc = "files"
    /\ subdir = <<root_dir>>
    /\ ndirs = 1
    /\ \E t \in Texts :
         /\ files = << [name |-> <<"a", ".", "t", "s">>, readable |-> TRUE,
                        data |-> t] >>
         /\ fs = << [dir |-> root_dir, files |-> files] >>
    /\ filepath = <<>>
    /\ content = <<>>
    /\ pos = 0
    /\ start_index = 0
    /\ line_number = 0
    /\ method = <<>>
    /\ params_start_idx = 0
    /\ balance = 0
    /\ idx = 0
    /\ full_args = <<>>
    /\ usage_list = <<>>
    /\ starts = <<>>

NextText ==
    \/ ReadOk
    \/ MatchStep
    \/ ScanChar
    \/ ScanBreak
    \/ ScanEnd
    \/ AppendRecord
    \/ MatchEnd
    \/ FilesEnd
    \/ WalkEnd

SpecText == InitText /\ [][NextText]_vars

(***************************************************************************)
(* Vocabulary of the properties.                                           *)
(***************************************************************************)
RecognizedVariants ==
    { <<"s", "u", "c", "c", "e", "s", "s">>, <<"e", "r", "r", "o", "r">>,
      <<"i", "n", "f", "o">>, <<"w", "a", "r", "n", "i", "n", "g">>,
      <<"l", "o", "a", "d", "i", "n", "g">>, <<"c", "u", "s", "t", "o", "m">>,
      <<"m", "e", "s", "s", "a", "g", "e">> }

DefaultVariant == <<"d", "e", "f", "a", "u", "l", "t">>

\* an opening parenthesis follows offset k after whitespace only
OpensAfter(c, k) ==
    \E p \in k..(Len(c) - 1) :
        /\ c[p + 1] = "("
        /\ \A q \in k..(p - 1) : c[q + 1] \in {" ", "\t", "\n", "\r"}

\* the offset after that opening parenthesis
OpenEnd(c, k) ==
    1 + Min({ p \in k..(Len(c) - 1) : c[p + 1] = "(" })

\* toast( at offset i, whitespace allowed before the parenthesis
IsBareCall(c, i) ==
    HasAt(c, i, <<"t", "o", "a", "s", "t">>) /\ OpensAfter(c, i + 5)

\* toast.v( at offset i, whitespace allowed before the parenthesis
IsVariantCall(c, i, v) ==
    /\ HasAt(c, i, <<"t", "o", "a", "s", "t", ".">> \o v)
    /\ OpensAfter(c, i + 6 + Len(v))

\* an occurrence of toast followed by ( or by .<recognized variant>(
IsCandidate(c, i) ==
    IsBareCall(c, i) \/ \E v \in RecognizedVariants : IsVariantCall(c, i, v)

Candidates(c) == { i \in 0..(Len(c) - 1) : IsCandidate(c, i) }

\* the argument-start offset of the candidate at offset i
ArgStart(c, i) ==
    IF IsBareCall(c, i) THEN OpenEnd(c, i + 5)
    ELSE LET v == CHOOSE w \in RecognizedVariants : IsVariantCall(c, i, w)
         IN OpenEnd(c, i + 6 + Len(v))

\* the number of ch among the characters at offsets a .. e-1
Occurrences(c, ch, a, e) == Cardinality({ k \in a..(e - 1) : c[k + 1] = ch })

\* the parenthesis depth reached after reading offsets a .. e-1
Depth(c, a, e) == Occurrences(c, "(", a, e) - Occurrences(c, ")", a, e)

\* the offset of the first ")" read at depth 0 from a, or end-of-text
StopOffset(c, a) ==
    Min({ e \in a..(Len(c) - 1) : c[e + 1] = ")" /\ Depth(c, a, e) = 0 }
        \cup { Len(c) })

RawArgs(c, a) == SubSeq(c, a + 1, StopOffset(c, a))

\* the raw argument text of the record added last
LastRaw == SubSeq(content, params_start_idx + 1, idx)

LastRecord == usage_list[Len(usage_list)]

RecordAdded == usage_list # <<>> /\ pc \in {"match", "files", "walk", "done"}

\* foo(bar(1,2)), "x)y"
NestedCallArgs ==
    <<"f", "o", "o", "(", "b", "a", "r", "(", "1", ",", "2", ")", ")", ",",
      " ", "\"", "x", ")", "y", "\"">>

\* foo(bar(1,2)), "x
NestedCallArgsCut ==
    <<"f", "o", "o", "(", "b", "a", "r", "(", "1", ",", "2", ")", ")", ",",
      " ", "\"", "x">>

(***************************************************************************)
(* C1 (as stated): for the text toast(foo(bar(1,2)), "x)y") the extracted  *)
(* argument text is foo(bar(1,2)), "x)y".                                  *)
(***************************************************************************)
C1_Original ==
    (content = NestedCallText /\ RecordAdded)
        => LastRecord.args = NestedCallArgs

(***************************************************************************)
(* C1 (amended): for the text toast(foo(bar(1,2)), "x)y") exactly one      *)
(* record is produced and its argument text is foo(bar(1,2)), "x : the     *)
(* extraction does not stop at a ")" inside foo(bar(1,2)), it stops at the *)
(* ")" inside the string literal, the first one read at depth 0.           *)
(***************************************************************************)
C1_NestedCall ==
    (content = NestedCallText /\ RecordAdded)
        => /\ Len(usage_list) = 1
           /\ LastRecord.args = NestedCallArgsCut
           /\ idx = 23
           /\ content[idx + 1] = ")"

C1_Witness ==
    content = NestedCallText /\ pc = "done" /\ Len(usage_list) = 1

(***************************************************************************)
(* C2 (as stated): every candidate after which the text ends before the    *)
(* depth goes negative, also when no ")" follows at all, gets a record     *)
(* whose args is the summary of the text from its argument-start offset to *)
(* end-of-text.                                                            *)
(***************************************************************************)
C2_TruncatedGetsRecord ==
    pc = "done" =>
        \A i \in Candidates(content) :
            StopOffset(content, ArgStart(content, i)) = Len(content)
                => \E k \in DOMAIN usage_list :
                       /\ starts[k] = i
                       /\ usage_list[k].args =
                              Summary(SubSeq(content,
                                             ArgStart(content, i) + 1,
                                             Len(content)))

(***************************************************************************)
(* C3 (as stated): exactly one record for each occurrence of toast         *)
(* followed by ( or by .<recognized variant>(, nested and repeated ones    *)
(* included, in strictly increasing order of the start offsets.            *)
(***************************************************************************)
C3_OneRecordPerCandidate ==
    pc = "done" =>
        /\ Len(usage_list) = Cardinality(Candidates(content))
        /\ { starts[k] : k \in DOMAIN starts } = Candidates(content)
        /\ \A j, k \in DOMAIN starts : j < k => starts[j] < starts[k]

(***************************************************************************)
(* C4: line is 1 plus the number of newlines of the original text strictly *)
(* before the match's start offset; it is at least 1, and the lines of     *)
(* successive records of a file do not decrease.                           *)
(***************************************************************************)
C4_LineNumber ==
    /\ \A k \in DOMAIN usage_list :
           /\ usage_list[k].line = 1 + Occurrences(content, "\n", 0, starts[k])
           /\ usage_list[k].line >= 1
    /\ \A j, k \in DOMAIN usage_list :
           j < k => usage_list[j].line <= usage_list[k].line

C4_Witness ==
    /\ pc = "done"
    /\ Len(usage_list) = 2
    /\ usage_list[1].line = 1
    /\ usage_list[2].line = 2
    /\ content[1] # "\n"

(***************************************************************************)
(* C5: a record's variant is in the closed set; it is the member name when *)
(* the match is toast.<member>( with a recognized member, default exactly  *)
(* when the match is the bare toast(; toast.<member>( with a member that   *)
(* is not recognized produces no record.                                   *)
(***************************************************************************)
C5_Variant ==
    \A k \in DOMAIN usage_list :
        LET v == usage_list[k].type
            i == starts[k]
        IN /\ v \in RecognizedVariants \cup {DefaultVariant}
           /\ v = DefaultVariant <=> IsBareCall(content, i)
           /\ v # DefaultVariant => IsVariantCall(content, i, v)
           /\ IsCandidate(content, i)

C5_Witness ==
    /\ content = VariantsText
    /\ pc = "done"
    /\ Len(usage_list) = 2
    /\ usage_list[1].type = <<"s", "u", "c", "c", "e", "s", "s">>
    /\ usage_list[2].type = DefaultVariant

(***************************************************************************)
(* C6: args has at most 103 characters; it is the whole normalized         *)
(* argument text when that has at most 100 characters, and otherwise its   *)
(* first 100 characters followed by "...".                                 *)
(***************************************************************************)
C6_Truncation ==
    /\ \A k \in DOMAIN usage_list : Len(usage_list[k].args) <= 103
    /\ RecordAdded =>
           LET n == Normalize(LastRaw) IN
           /\ Len(n) <= 100 => LastRecord.args = n
           /\ Len(n) > 100 =>
                  /\ Len(LastRecord.args) = 103
                  /\ SubSeq(LastRecord.args, 1, 100) = SubSeq(n, 1, 100)
                  /\ SubSeq(LastRecord.args, 101, 103) = <<".", ".", ".">>

C6_Witness ==
    /\ pc = "done"
    /\ Len(usage_list) = 1
    /\ Len(LastRaw) = 150
    /\ \A k \in DOMAIN LastRaw : LastRaw[k] \notin {" ", "\t", "\n", "\r"}
    /\ Len(LastRecord.args) = 103
    /\ SubSeq(LastRecord.args, 101, 103) = <<".", ".", ".">>

(***************************************************************************)
(* C7: args holds no newline, no two consecutive spaces and no leading or  *)
(* trailing whitespace, whatever whitespace the raw text held and whether  *)
(* or not it was truncated.                                                *)
(***************************************************************************)
C7_Whitespace ==
    \A k \in DOMAIN usage_list :
        LET a == usage_list[k].args IN
        /\ \A j \in DOMAIN a : a[j] \notin {"\n", "\t", "\r"}
        /\ \A j \in 1..(Len(a) - 1) : ~(a[j] = " " /\ a[j + 1] = " ")
        /\ a # <<>> => a[1] # " " /\ a[Len(a)] # " "

C7_Witness ==
    /\ pc = "done"
    /\ Len(usage_list) = 1
    /\ Len(LastRecord.args) = 103
    /\ LastRecord.args[100] = " "
    /\ LastRaw[1] = " "
    /\ \E j \in DOMAIN LastRaw : LastRaw[j] = "\t"
    /\ \E j \in DOMAIN LastRaw : LastRaw[j] = "\n"

(***************************************************************************)
(* C8: the returned list is the concatenation, in enumeration order, of    *)
(* the records of the enumerated files that were read; a file whose read   *)
(* fails adds nothing and changes nothing before or after it.              *)
(***************************************************************************)
RECURSIVE RecordsOfText(_, _, _)
RecordsOfText(fp, c, p) ==
    LET i == Min({ j \in p..(Len(c) - 1) : MatchAt(c, j).ok }) IN
    IF \A j \in p..(Len(c) - 1) : ~MatchAt(c, j).ok THEN <<>>
    ELSE << [file |-> fp,
             line |-> 1 + Occurrences(c, "\n", 0, i),
             type |-> IF IsBareCall(c, i) THEN DefaultVariant
                      ELSE CHOOSE v \in RecognizedVariants :
                               IsVariantCall(c, i, v),
             args |-> Summary(RawArgs(c, ArgStart(c, i)))] >>
         \o RecordsOfText(fp, c, MatchAt(c, i).end)

RECURSIVE RecordsOfFiles(_, _)
RecordsOfFiles(dir, fl) ==
    IF fl = <<>> THEN <<>>
    ELSE (IF HasSourceExtension(Head(fl).name) /\ Head(fl).readable
          THEN RecordsOfText(PathJoin(dir, Head(fl).name), Head(fl).data, 0)
          ELSE <<>>)
         \o RecordsOfFiles(dir, Tail(fl))

RECURSIVE RecordsOfTree(_)
RecordsOfTree(tree) ==
    IF tree = <<>> THEN <<>>
    ELSE (IF IsExcluded(Head(tree).dir) THEN <<>>
          ELSE RecordsOfFiles(Head(tree).dir, Head(tree).files))
         \o RecordsOfTree(Tail(tree))

C8_FailedFileSkipped == pc = "done" => usage_list = RecordsOfTree(fs)

C8_Witness ==
    /\ pc = "done"
    /\ Len(usage_list) = 4
    /\ Len(fs) >= 2
    /\ Len(fs[1].files) = 2
    /\ fs[1].files[1].readable /\ HasSourceExtension(fs[1].files[1].name)
    /\ ~fs[1].files[2].readable /\ HasSourceExtension(fs[1].files[2].name)
    /\ ~IsExcluded(fs[2].dir)
    /\ Len(fs[2].files) = 1
    /\ fs[2].files[1].readable /\ HasSourceExtension(fs[2].files[1].name)

(***************************************************************************)
(* C9: no record's file lies in a directory whose path contains            *)
(* node_modules or .git, at any depth, and every record's file name ends   *)
(* in .tsx, .ts, .js or .jsx.                                              *)
(***************************************************************************)
DirOf(path) ==
    LET slashes == { k \in DOMAIN path : path[k] = "/" } IN
    SubSeq(path, 1, (CHOOSE k \in slashes : \A j \in slashes : j <= k) - 1)

C9_Exclusion ==
    \A k \in DOMAIN usage_list :
        LET f == usage_list[k].file IN
        /\ ~Contains(<<"n", "o", "d", "e", "_", "m", "o", "d", "u", "l", "e",
                       "s">>, DirOf(f))
        /\ ~Contains(<<".", "g", "i", "t">>, DirOf(f))
        /\ \/ EndsWith(f, <<".", "t", "s", "x">>)
           \/ EndsWith(f, <<".", "t", "s">>)
           \/ EndsWith(f, <<".", "j", "s">>)
           \/ EndsWith(f, <<".", "j", "s", "x">>)

C9_Witness ==
    /\ pc = "done"
    /\ Len(fs) = 3
    /\ usage_list # <<>>
    /\ \E j \in DOMAIN fs[1].files :
           /\ ~HasSourceExtension(fs[1].files[j].name)
           /\ fs[1].files[j].readable
    /\ Contains(node_modules, fs[2].dir)
    /\ Contains(node_modules, fs[3].dir)
    /\ fs[3].dir # fs[2].dir /\ HasAt(fs[3].dir, 0, fs[2].dir)
    /\ \E j \in DOMAIN fs[3].files :
           /\ HasSourceExtension(fs[3].files[j].name)
           /\ fs[3].files[j].readable

(***************************************************************************)
(* C10: the raw argument buffer is the text from the offset just after the *)
(* candidate's opening parenthesis up to, not including, the first ")"     *)
(* read at depth 0, or up to end-of-text; every prefix of it holds at      *)
(* least as many "(" as ")", and equally many when the scan stopped at a   *)
(* closer.                                                                 *)
(***************************************************************************)
C10_BalancedBuffer ==
    pc \in {"scan", "summarize"} =>
        /\ content[params_start_idx] = "("
        /\ full_args = SubSeq(content, params_start_idx + 1, idx)
        /\ \A n \in 0..Len(full_args) :
               Occurrences(full_args, "(", 0, n)
                   >= Occurrences(full_args, ")", 0, n)
        /\ pc = "summarize" =>
               /\ idx = StopOffset(content, params_start_idx)
               /\ idx < Len(content) =>
                      /\ content[idx + 1] = ")"
                      /\ Occurrences(full_args, "(", 0, Len(full_args))
                             = Occurrences(full_args, ")", 0, Len(full_args))

C10_Witness ==
    /\ pc = "summarize"
    /\ content = NestedCallText
    /\ full_args = NestedCallArgsCut
    /\ idx < Len(content)

====
